---------------------------- MODULE Spec2Model ----------------------------
(***************************************************************************)
(* Price-spike strategy: the backtest (detectPriceSpikes / executeTrade)   *)
(* and the live monitor (detectPriceSpikes of strategy/s_i1.ts).           *)
(*                                                                         *)
(* Numbers.  The program computes in IEEE-754 doubles.  A number is        *)
(* modelled as a fraction [n, d] in lowest terms with d >= 0; d = 0 holds  *)
(* the three special values the divisions of the program can produce:     *)
(*   [n |-> 1, d |-> 0] = +Infinity, [n |-> -1, d |-> 0] = -Infinity,      *)
(*   [n |-> 0, d |-> 0] = NaN.                                             *)
(* Arithmetic and comparisons follow IEEE-754 on these values (every       *)
(* comparison with NaN is false); rounding and the sign of zero are not    *)
(* modelled.  Candle prices are integers, for which the quotients          *)
(* compared with the threshold are correctly rounded and so compare with   *)
(* the threshold literal exactly as the fractions do.                      *)
(*                                                                         *)
(* Candles carry timestamp, high, low and close: open and volume are read  *)
(* only by log statements.  A timestamp counts whole days since            *)
(* 1970-01-01T00:00Z (the program's unit is the millisecond).              *)
(***************************************************************************)
EXTENDS Integers, Sequences, FiniteSets

VARIABLES
    data,            \* the candle series of the run (OHLCV[])
    i,               \* detectPriceSpikes: loop index, 0-based as in the source
    currentBalance,  \* detectPriceSpikes: let currentBalance
    totalTrades,     \* detectPriceSpikes: let totalTrades
    winningTrades,   \* detectPriceSpikes: let winningTrades
    losingTrades,    \* detectPriceSpikes: let losingTrades
    monthlyProfit,   \* detectPriceSpikes: let monthlyProfit (month key -> number)
    pc,              \* position of the backtest: "scan", "loop", "ret", "done"
    call,            \* the activation of executeTrade, NoCall outside of it
    trades,          \* the per-trade event stream (one record per returned trade)
    livePc,          \* position of the live monitor: "volume", "fetch" ("off" in a backtest)
    liveCall,        \* the live detectPriceSpikes activation: symbol, volume24h
    polls            \* the live monitor's finished detectPriceSpikes calls

vars == <<data, i, currentBalance, totalTrades, winningTrades, losingTrades,
          monthlyProfit, pc, call, trades, livePc, liveCall, polls>>

backtestVars == <<data, i, currentBalance, totalTrades, winningTrades,
                  losingTrades, monthlyProfit, pc, call, trades>>

liveVars == <<livePc, liveCall, polls>>

-----------------------------------------------------------------------------
(* Bounds of the model *)

MaxLen == 4

MaxLenEdge == 3

MaxLenRaw == 3

MaxPolls == 2

-----------------------------------------------------------------------------
(* Numbers *)

Absi(x) == IF x < 0 THEN -x ELSE x

Sign(x) == IF x > 0 THEN 1 ELSE IF x < 0 THEN -1 ELSE 0

RECURSIVE GCD(_, _)
GCD(a, b) == IF b = 0 THEN a ELSE GCD(b, a % b)

Norm(n, d) ==
    IF d = 0 THEN [n |-> Sign(n), d |-> 0]
    ELSE LET g == GCD(Absi(n), d) IN [n |-> n \div g, d |-> d \div g]

N(x) == [n |-> x, d |-> 1]

Zero == N(0)

NaN == [n |-> 0, d |-> 0]

IsNaN(a) == a.d = 0 /\ a.n = 0

Neg(a) == [n |-> -a.n, d |-> a.d]

AbsN(a) == [n |-> Absi(a.n), d |-> a.d]

Add(a, b) ==
    IF a.d = 0 /\ b.d = 0 THEN (IF a.n = b.n THEN a ELSE NaN)
    ELSE IF a.d = 0 THEN a
    ELSE IF b.d = 0 THEN b
    ELSE LET g == GCD(a.d, b.d)
         IN  Norm(a.n * (b.d \div g) + b.n * (a.d \div g), (a.d \div g) * b.d)

Sub(a, b) == Add(a, Neg(b))

Mul(a, b) ==
    IF a.d = 0 \/ b.d = 0 THEN [n |-> Sign(a.n) * Sign(b.n), d |-> 0]
    ELSE LET g1 == GCD(Absi(a.n), b.d)
             g2 == GCD(Absi(b.n), a.d)
         IN  Norm((a.n \div g1) * (b.n \div g2), (a.d \div g2) * (b.d \div g1))

Inv(b) ==
    IF b.n > 0 THEN [n |-> b.d, d |-> b.n]
    ELSE IF b.n < 0 THEN [n |-> -b.d, d |-> -b.n]
    ELSE IF b.d = 0 THEN NaN ELSE [n |-> 1, d |-> 0]

Div(a, b) == Mul(a, Inv(b))

Lt(a, b) ==
    /\ ~IsNaN(a)
    /\ ~IsNaN(b)
    /\ IF a.d = 0 /\ b.d = 0 THEN a.n < b.n
       ELSE IF a.d = 0 THEN a.n < 0
       ELSE IF b.d = 0 THEN b.n > 0
       ELSE LET g == GCD(a.d, b.d)
            IN  a.n * (b.d \div g) < b.n * (a.d \div g)

Le(a, b) == ~IsNaN(a) /\ ~IsNaN(b) /\ ~Lt(b, a)

Gt(a, b) == Lt(b, a)

Ge(a, b) == Le(b, a)

-----------------------------------------------------------------------------
(* Program constants *)

initialBalance == 1000

threshold == [n |-> 1, d |-> 100]

-----------------------------------------------------------------------------
(* Candles and the inputs of a run *)

\* The candle shapes over a set of prices: low <= close <= high.
Shapes(P) == {s \in [high : P, low : P, close : P] :
                 s.low <= s.close /\ s.close <= s.high}

\* 2024-01-30, 2024-01-31, 2024-02-01, 2024-02-29, 2024-03-01 (days since epoch).
Stamps == {19752, 19753, 19754, 19782, 19783}

\* 2024-01-31, 2024-02-01, 2024-02-29, 2024-03-01.
FewStamps == {19753, 19754, 19782, 19783}

\* Strictly increasing timestamp sequences of length L over the set S.
StampSeqs(S, L) == {t \in [1..L -> S] : \A k \in 1..(L - 1) : t[k] < t[k + 1]}

MkSeries(sh, t) ==
    [k \in DOMAIN sh |-> [timestamp |-> t[k], high |-> sh[k].high,
                          low |-> sh[k].low, close |-> sh[k].close]]

\* Prices of the main specification: spikes on every move, targets and stops
\* inside the price range for both directions, balances that reach zero.
Prices == {1, 2, 4}

\* Prices around the 1% threshold: 100 -> 101 and 100 -> 99 are exactly 1%,
\* 101 -> 100 is just below it and 99 -> 100 just above.
EdgePrices == {99, 100, 101, 102}

\* Prices with a zero close.
RawPrices == {0, 1, 2}

\* data[k] of the source (0-based).
At(k) == data[k + 1]

NoCall == [index |-> -1]

-----------------------------------------------------------------------------
(* new Date(timestamp).toISOString().slice(0, 7) *)

IsLeap(y) == (y % 4 = 0 /\ y % 100 # 0) \/ y % 400 = 0

DaysInYear(y) == IF IsLeap(y) THEN 366 ELSE 365

DaysInMonth(y, m) ==
    IF m = 2 THEN (IF IsLeap(y) THEN 29 ELSE 28)
    ELSE IF m \in {4, 6, 9, 11} THEN 30 ELSE 31

RECURSIVE YearFrom(_, _)
YearFrom(y, days) ==
    IF days < DaysInYear(y) THEN <<y, days>>
    ELSE YearFrom(y + 1, days - DaysInYear(y))

RECURSIVE MonthFrom(_, _, _)
MonthFrom(y, m, days) ==
    IF days < DaysInMonth(y, m) THEN m
    ELSE MonthFrom(y, m + 1, days - DaysInMonth(y, m))

\* The key "YYYY-MM" as the number YYYY * 100 + MM.
MonthKey(timestamp) ==
    LET yd == YearFrom(1970, timestamp)
    IN  yd[1] * 100 + MonthFrom(yd[1], 1, yd[2])

-----------------------------------------------------------------------------
(* detectPriceSpikes / executeTrade: the expressions *)

Change(previousPrice, currentPrice) ==
    Div(Sub(currentPrice, previousPrice), previousPrice)

\* Faulty variant of IsSpike: the comparison with the threshold is not strict.
IsSpikeInclusive(change) == Ge(AbsN(change), threshold)

IsSpike(change) == Gt(AbsN(change), threshold)

IsShort(change) == Gt(change, Zero)

TargetPrice(isShort, entryPrice, change) ==
    IF isShort THEN Sub(entryPrice, Mul(Div(change, N(2)), entryPrice))
    ELSE Add(entryPrice, Mul(Div(change, N(2)), entryPrice))

StopLossPrice(isShort, entryPrice, change) ==
    IF isShort THEN Add(entryPrice, Mul(change, entryPrice))
    ELSE Sub(entryPrice, Mul(change, entryPrice))

\* Faulty variant of TouchPrice: the extremes are swapped.
TouchPriceSwapped(isShort, candle) == IF isShort THEN N(candle.high) ELSE N(candle.low)

TouchPrice(isShort, candle) == IF isShort THEN N(candle.low) ELSE N(candle.high)

TargetHit(c, currentPrice) ==
    \/ c.isShort /\ Le(currentPrice, c.targetPrice)
    \/ ~c.isShort /\ Ge(currentPrice, c.targetPrice)

StopHit(c, currentPrice) ==
    \/ c.isShort /\ Ge(currentPrice, c.stopLossPrice)
    \/ ~c.isShort /\ Le(currentPrice, c.stopLossPrice)

WinProfit(c, currentPrice) ==
    IF c.isShort
    THEN Mul(Div(Sub(c.entryPrice, currentPrice), c.entryPrice), c.currentBalance)
    ELSE Mul(Div(Sub(currentPrice, c.entryPrice), c.entryPrice), c.currentBalance)

LossAmount(c, currentPrice) ==
    AbsN(Mul(Div(Sub(currentPrice, c.entryPrice), c.entryPrice), c.currentBalance))

\* Faulty variant of ReturnedLoss: the sign of the loss is not turned.
ReturnedLossKeepsSign(loss) == loss

\* profit = -profit, the value executeTrade returns after a stop.
ReturnedLoss(loss) == Neg(loss)

LastChange(c, lastPrice) ==
    Mul(Div(Sub(lastPrice, c.entryPrice), c.entryPrice), c.currentBalance)

\* (monthlyProfit[month] || 0): undefined, 0 and NaN are falsy.
OrZero(mp, month) ==
    IF month \notin DOMAIN mp THEN Zero
    ELSE IF IsNaN(mp[month]) THEN Zero ELSE mp[month]

\* monthlyProfit[month] = (monthlyProfit[month] || 0) + delta
Accumulate(mp, month, delta) ==
    [m \in DOMAIN mp \cup {month} |->
        IF m = month THEN Add(OrZero(mp, month), delta) ELSE mp[m]]

\* Faulty variant of ExitCandle: the month is taken from the entry candle.
ExitCandleIsEntry(index, j) == index

\* The candle whose timestamp keys the trade's month: the candle of the scan.
ExitCandle(index, j) == j

\* Faulty variant of IsWinning: a zero profit counts as a win.
IsWinningInclusive(profit) == Ge(profit, Zero)

IsWinning(profit) == Gt(profit, Zero)

WinningAfter(w, profit) == IF IsWinning(profit) THEN w + 1 ELSE w

\* Faulty variant of LosingAfter: only a negative profit counts as a loss.
LosingAfterStrict(l, profit) == IF Lt(profit, Zero) THEN l + 1 ELSE l

LosingAfter(l, profit) == IF IsWinning(profit) THEN l ELSE l + 1

\* Faulty variant of ResumeIndex: the scan continues after the exit of the trade.
ResumeAfterExit(index, exitIndex) == exitIndex + 1

\* The index the outer loop continues with after a trade opened at index
\* returned with its exit at exitIndex: i++.
ResumeIndex(index, exitIndex) == index + 1

-----------------------------------------------------------------------------
(* The backtest: detectPriceSpikes(data, symbol) *)

InitLedger ==
    /\ i = 1
    /\ currentBalance = N(initialBalance)
    /\ totalTrades = 0
    /\ winningTrades = 0
    /\ losingTrades = 0
    /\ monthlyProfit = <<>>
    /\ pc = "scan"
    /\ call = NoCall
    /\ trades = <<>>

InitLiveIdle ==
    /\ livePc = "off"
    /\ liveCall = [symbol |-> 0, volume24h |-> 0]
    /\ polls = <<>>

InitWith(P, S, maxLen) ==
    /\ \E L \in 0..maxLen :
         \E sh \in [1..L -> Shapes(P)], t \in StampSeqs(S, L) :
            data = MkSeries(sh, t)
    /\ InitLedger
    /\ InitLiveIdle

Init == InitWith(Prices, Stamps, MaxLen)

InitEdge == InitWith(EdgePrices, FewStamps, MaxLenEdge)

InitRaw == InitWith(RawPrices, FewStamps, MaxLenRaw)

\* One iteration of the for loop of detectPriceSpikes without a spike.
ScanNoSpike ==
    /\ pc = "scan"
    /\ i < Len(data)
    /\ LET change == Change(N(At(i - 1).close), N(At(i).close))
       IN  ~IsSpike(change)
    /\ i' = i + 1
    /\ UNCHANGED <<data, currentBalance, totalTrades, winningTrades, losingTrades,
                   monthlyProfit, pc, call, trades>>
    /\ UNCHANGED liveVars

\* A spike: executeTrade(data, i, change, isShort, currentBalance, monthlyProfit)
\* is entered; its lines up to the head of its loop.
ScanSpike ==
    /\ pc = "scan"
    /\ i < Len(data)
    /\ LET change == Change(N(At(i - 1).close), N(At(i).close))
           isShort == IsShort(change)
           entryPrice == N(At(i).close)
           mag == AbsN(change)
       IN  /\ IsSpike(change)
           /\ call' = [index |-> i,
                       isShort |-> isShort,
                       change |-> mag,
                       entryPrice |-> entryPrice,
                       targetPrice |-> TargetPrice(isShort, entryPrice, mag),
                       stopLossPrice |-> StopLossPrice(isShort, entryPrice, mag),
                       currentBalance |-> currentBalance,
                       openBalance |-> currentBalance,
                       positionOpened |-> TRUE,
                       profit |-> Zero,
                       j |-> i + 1,
                       kind |-> "open",
                       exit |-> i,
                       month |-> 0]
    /\ pc' = "loop"
    /\ UNCHANGED <<data, i, currentBalance, totalTrades, winningTrades,
                   losingTrades, monthlyProfit, trades>>
    /\ UNCHANGED liveVars

\* The loop of executeTrade at candle j: the take-profit branch.
TakeProfit ==
    /\ pc = "loop"
    /\ call.j < Len(data)
    /\ LET currentPrice == TouchPrice(call.isShort, At(call.j))
           month == MonthKey(At(ExitCandle(call.index, call.j)).timestamp)
           profit == WinProfit(call, currentPrice)
       IN  /\ TargetHit(call, currentPrice)
           /\ monthlyProfit' = Accumulate(monthlyProfit, month, profit)
           /\ call' = [call EXCEPT !.profit = profit,
                                   !.currentBalance = Add(call.currentBalance, profit),
                                   !.positionOpened = FALSE,
                                   !.kind = "target",
                                   !.exit = call.j,
                                   !.month = month]
    /\ pc' = "ret"
    /\ UNCHANGED <<data, i, currentBalance, totalTrades, winningTrades,
                   losingTrades, trades>>
    /\ UNCHANGED liveVars

\* The loop of executeTrade at candle j: the stop-loss branch.
StopLoss ==
    /\ pc = "loop"
    /\ call.j < Len(data)
    /\ LET currentPrice == TouchPrice(call.isShort, At(call.j))
           month == MonthKey(At(ExitCandle(call.index, call.j)).timestamp)
           loss == LossAmount(call, currentPrice)
       IN  /\ ~TargetHit(call, currentPrice)
           /\ StopHit(call, currentPrice)
           /\ monthlyProfit' = Accumulate(monthlyProfit, month, Neg(loss))
           /\ call' = [call EXCEPT !.profit = ReturnedLoss(loss),
                                   !.currentBalance = Sub(call.currentBalance, loss),
                                   !.positionOpened = FALSE,
                                   !.kind = "stop",
                                   !.exit = call.j,
                                   !.month = month]
    /\ pc' = "ret"
    /\ UNCHANGED <<data, i, currentBalance, totalTrades, winningTrades,
                   losingTrades, trades>>
    /\ UNCHANGED liveVars

\* The loop of executeTrade at candle j: neither branch, i++.
NextCandle ==
    /\ pc = "loop"
    /\ call.j < Len(data)
    /\ LET currentPrice == TouchPrice(call.isShort, At(call.j))
       IN  /\ ~TargetHit(call, currentPrice)
           /\ ~StopHit(call, currentPrice)
    /\ call' = [call EXCEPT !.j = call.j + 1]
    /\ UNCHANGED <<data, i, currentBalance, totalTrades, winningTrades,
                   losingTrades, monthlyProfit, pc, trades>>
    /\ UNCHANGED liveVars

\* The loop of executeTrade ran off the series: if (positionOpened) { ... }.
CloseAtEnd ==
    /\ pc = "loop"
    /\ call.j >= Len(data)
    /\ call.positionOpened
    /\ LET last == Len(data) - 1
           lastPrice == N(At(last).close)
           lastChange == LastChange(call, lastPrice)
           profit == IF call.isShort THEN Neg(lastChange) ELSE lastChange
           month == MonthKey(At(ExitCandle(call.index, last)).timestamp)
       IN  /\ monthlyProfit' = Accumulate(monthlyProfit, month, profit)
           /\ call' = [call EXCEPT !.profit = profit,
                                   !.currentBalance = Add(call.currentBalance, profit),
                                   !.kind = "end",
                                   !.exit = last,
                                   !.month = month]
    /\ pc' = "ret"
    /\ UNCHANGED <<data, i, currentBalance, totalTrades, winningTrades,
                   losingTrades, trades>>
    /\ UNCHANGED liveVars

\* return { balance: currentBalance, profit } and the caller's bookkeeping.
Return ==
    /\ pc = "ret"
    /\ currentBalance' = call.currentBalance
    /\ totalTrades' = totalTrades + 1
    /\ winningTrades' = WinningAfter(winningTrades, call.profit)
    /\ losingTrades' = LosingAfter(losingTrades, call.profit)
    /\ trades' = Append(trades, [index |-> call.index,
                                 isShort |-> call.isShort,
                                 targetPrice |-> call.targetPrice,
                                 stopLossPrice |-> call.stopLossPrice,
                                 openBalance |-> call.openBalance,
                                 kind |-> call.kind,
                                 exit |-> call.exit,
                                 examined |-> call.j,
                                 month |-> call.month,
                                 profit |-> call.profit,
                                 balance |-> call.currentBalance,
                                 won |-> (winningTrades' = winningTrades + 1),
                                 lost |-> (losingTrades' = losingTrades + 1)])
    /\ i' = ResumeIndex(call.index, call.exit)
    /\ call' = NoCall
    /\ pc' = "scan"
    /\ UNCHANGED <<data, monthlyProfit>>
    /\ UNCHANGED liveVars

\* The loop of detectPriceSpikes ends; the summary is printed.
Finish ==
    /\ pc = "scan"
    /\ i >= Len(data)
    /\ pc' = "done"
    /\ UNCHANGED <<data, i, currentBalance, totalTrades, winningTrades,
                   losingTrades, monthlyProfit, call, trades>>
    /\ UNCHANGED liveVars

Next ==
    \/ ScanNoSpike
    \/ ScanSpike
    \/ TakeProfit
    \/ StopLoss
    \/ NextCandle
    \/ CloseAtEnd
    \/ Return
    \/ Finish

Spec == Init /\ [][Next]_vars

SpecEdge == InitEdge /\ [][Next]_vars

SpecRaw == InitRaw /\ [][Next]_vars

-----------------------------------------------------------------------------
(* The live monitor: strategy/s_i1.ts *)

thresholdLive == [n |-> 13, d |-> 1000]

orderAmount == 30

volumeThreshold == 10000000

\* The symbols monitorTickers loops over, in order.
Symbols == {1, 2}

\* 24h quote volumes around volumeThreshold.
Volumes == {9999999, 10000000, 10000001}

\* Closes around the 1.3% threshold: 1000 -> 987 and 1000 -> 1013 are exactly 1.3%.
LivePrices == {986, 987, 1000, 1013, 1014}

\* What fetchLatestOHLCV can return: the closes of at most 2 candles.
LiveSeries == UNION {[1..L -> LivePrices] : L \in 0..2}

NoOrder == [side |-> "none"]

IsSpikeLive(change) == Gt(AbsN(change), thresholdLive)

\* Faulty variant of PlacesOrder: the direction is not looked at.
PlacesOrderAnySpike(change) == IsSpikeLive(change)

\* if (Math.abs(change) > threshold) { const isShort = change > 0; if (!isShort) ...
PlacesOrder(change) == IsSpikeLive(change) /\ ~IsShort(change)

\* The arguments of placeOrder(symbol, 'buy', amount, currentPrice, takeProfit, stopLoss).
OrderFor(symbol, currentPrice) ==
    [symbol |-> symbol,
     side |-> "buy",
     amountMarket |-> Div(N(orderAmount), currentPrice),
     price |-> currentPrice,
     takeProfit |-> Mul(currentPrice, Add(N(1), thresholdLive)),
     stopLoss |-> Mul(currentPrice, Sub(N(1), thresholdLive))]

\* if (volume24h < volumeThreshold) return;
VolumeTooLow(volume24h) == volume24h < volumeThreshold

\* for (const symbol of usdtSymbols), again and again (runMonitoring).
NextSymbol(symbol) == IF symbol + 1 \in Symbols THEN symbol + 1 ELSE 1

Polled(closes, order) ==
    [symbol |-> liveCall.symbol, volume24h |-> liveCall.volume24h,
     closes |-> closes, order |-> order]

InitLive ==
    /\ data = <<>>
    /\ InitLedger
    /\ livePc = "volume"
    /\ liveCall = [symbol |-> 1, volume24h |-> 0]
    /\ polls = <<>>

\* get24hVolume answers below the threshold: detectPriceSpikes returns.
LiveLowVolume ==
    /\ livePc = "volume"
    /\ Len(polls) < MaxPolls
    /\ \E v \in Volumes :
        /\ VolumeTooLow(v)
        /\ polls' = Append(polls, [symbol |-> liveCall.symbol, volume24h |-> v,
                                   closes |-> <<>>, order |-> NoOrder])
    /\ liveCall' = [symbol |-> NextSymbol(liveCall.symbol), volume24h |-> 0]
    /\ UNCHANGED livePc
    /\ UNCHANGED backtestVars

\* get24hVolume answers at or above the threshold: the candles are fetched.
LiveVolumeOk ==
    /\ livePc = "volume"
    /\ Len(polls) < MaxPolls
    /\ \E v \in Volumes :
        /\ ~VolumeTooLow(v)
        /\ liveCall' = [liveCall EXCEPT !.volume24h = v]
    /\ livePc' = "fetch"
    /\ UNCHANGED polls
    /\ UNCHANGED backtestVars

\* if (data.length < 2) return;
LiveTooFewCandles ==
    /\ livePc = "fetch"
    /\ \E closes \in LiveSeries :
        /\ Len(closes) < 2
        /\ polls' = Append(polls, Polled(closes, NoOrder))
    /\ liveCall' = [symbol |-> NextSymbol(liveCall.symbol), volume24h |-> 0]
    /\ livePc' = "volume"
    /\ UNCHANGED backtestVars

\* Two candles, and no order: no spike, or a Short one (which is only logged).
LiveNoOrder ==
    /\ livePc = "fetch"
    /\ \E closes \in LiveSeries :
        /\ Len(closes) >= 2
        /\ LET previousPrice == N(closes[Len(closes) - 1])
               currentPrice == N(closes[Len(closes)])
           IN  ~PlacesOrder(Change(previousPrice, currentPrice))
        /\ polls' = Append(polls, Polled(closes, NoOrder))
    /\ liveCall' = [symbol |-> NextSymbol(liveCall.symbol), volume24h |-> 0]
    /\ livePc' = "volume"
    /\ UNCHANGED backtestVars

\* Two candles and a Long spike: placeOrder is called.
LiveLongOrder ==
    /\ livePc = "fetch"
    /\ \E closes \in LiveSeries :
        /\ Len(closes) >= 2
        /\ LET previousPrice == N(closes[Len(closes) - 1])
               currentPrice == N(closes[Len(closes)])
           IN  /\ PlacesOrder(Change(previousPrice, currentPrice))
               /\ polls' = Append(polls,
                                  Polled(closes, OrderFor(liveCall.symbol, currentPrice)))
    /\ liveCall' = [symbol |-> NextSymbol(liveCall.symbol), volume24h |-> 0]
    /\ livePc' = "volume"
    /\ UNCHANGED backtestVars

NextLive ==
    \/ LiveLowVolume
    \/ LiveVolumeOk
    \/ LiveTooFewCandles
    \/ LiveNoOrder
    \/ LiveLongOrder

SpecLive == InitLive /\ [][NextLive]_vars

-----------------------------------------------------------------------------
(* Properties.  What they need besides the state: *)

\* The close-to-close move into index k (0-based, k >= 1) exceeds 1%, over the
\* integers: |close[k] - close[k-1]| / close[k-1] > 1/100 for a positive base.
MoveExceeds(k) ==
    100 * Absi(At(k).close - At(k - 1).close) > At(k - 1).close

\* The move into index k is exactly 1%, up or down.
MoveIsThreshold(k) ==
    100 * Absi(At(k).close - At(k - 1).close) = At(k - 1).close

RECURSIVE SumProfits(_)
SumProfits(ts) ==
    IF ts = <<>> THEN Zero
    ELSE Add(SumProfits(SubSeq(ts, 1, Len(ts) - 1)), ts[Len(ts)].profit)

RECURSIVE SumProfitsIn(_, _)
SumProfitsIn(ts, exits) ==
    IF ts = <<>> THEN Zero
    ELSE LET t == ts[Len(ts)]
             rest == SumProfitsIn(SubSeq(ts, 1, Len(ts) - 1), exits)
         IN  IF t.exit \in exits THEN Add(rest, t.profit) ELSE rest

RECURSIVE SumMonths(_, _)
SumMonths(mp, ms) ==
    IF ms = {} THEN Zero
    ELSE LET m == CHOOSE x \in ms : TRUE
         IN  Add(mp[m], SumMonths(mp, ms \ {m}))

\* The UTC calendar month of each timestamp of Stamps.
CalendarMonth(timestamp) ==
    IF timestamp \in {19752, 19753} THEN 202401
    ELSE IF timestamp \in {19754, 19782} THEN 202402
    ELSE 202403

\* The 0-based indices of the candles of calendar month m.
CandlesOfMonth(m) ==
    {k \in 0..(Len(data) - 1) : CalendarMonth(At(k).timestamp) = m}

AtRest == pc \in {"scan", "done"}

\* The candle at index k meets an exit condition of trade t as executeTrade
\* tests it: the low of the candle for a Short trade, the high for a Long one.
MeetsExit(t, k) ==
    IF t.isShort
    THEN Le(N(At(k).low), t.targetPrice) \/ Ge(N(At(k).low), t.stopLossPrice)
    ELSE Ge(N(At(k).high), t.targetPrice) \/ Le(N(At(k).high), t.stopLossPrice)

\* The range of the candle at index k spans the target and the stop of trade t.
SpansBoth(t, k) ==
    /\ Le(N(At(k).low), t.targetPrice)
    /\ Le(N(At(k).low), t.stopLossPrice)
    /\ Ge(N(At(k).high), t.targetPrice)
    /\ Ge(N(At(k).high), t.stopLossPrice)

\* k is the first candle after the entry of t that meets an exit condition.
FirstExit(t, k) ==
    /\ k \in (t.index + 1)..(Len(data) - 1)
    /\ MeetsExit(t, k)
    /\ \A m \in (t.index + 1)..(k - 1) : ~MeetsExit(t, m)

-----------------------------------------------------------------------------
\* C1: ledger consistency.  Whenever the backtest is between two indices or has
\* finished, the running balance is initialBalance plus the sum of the profits
\* returned by the trades executed so far, however each trade resolved.
LedgerConsistent ==
    AtRest => currentBalance = Add(N(initialBalance), SumProfits(trades))

\* A finished run whose trades resolved in all three ways, one of them a loss.
LedgerWitness ==
    /\ pc = "done"
    /\ {trades[k].kind : k \in DOMAIN trades} = {"target", "stop", "end"}
    /\ currentBalance # N(initialBalance)

-----------------------------------------------------------------------------
\* C2: spike detection is strict.  At an index a trade is opened if and only if
\* the magnitude of the move exceeds the threshold; otherwise (in particular at
\* a move of exactly +1% or -1%) the step leaves balance, counters and
\* monthlyProfit as they are; every recorded trade was opened at an index whose
\* move exceeds the threshold, and a run without such an index ends with no
\* trade and the initial balance.
StrictDetection ==
    /\ [](\A k \in DOMAIN trades : MoveExceeds(trades[k].index))
    /\ []((pc = "done" /\ \A k \in 1..(Len(data) - 1) : ~MoveExceeds(k))
             => (totalTrades = 0 /\ currentBalance = N(initialBalance)))
    /\ [][(pc = "scan" /\ i < Len(data))
             => IF MoveExceeds(i)
                THEN pc' = "loop" /\ call'.index = i
                ELSE /\ pc' = "scan"
                     /\ i' = i + 1
                     /\ UNCHANGED <<currentBalance, totalTrades, winningTrades,
                                    losingTrades, monthlyProfit, trades>>]_vars

\* A finished run with a move of exactly the threshold, which opened no trade,
\* and a move just above it, which opened the only trade.
StrictWitness ==
    /\ pc = "done"
    /\ \E k \in 1..(Len(data) - 1) : MoveIsThreshold(k)
    /\ \E k \in 1..(Len(data) - 1) :
          /\ MoveExceeds(k)
          /\ 100 * Absi(At(k).close - At(k - 1).close) < 2 * At(k - 1).close
    /\ totalTrades = 1

-----------------------------------------------------------------------------
\* C3: target before stop.  When the first candle after the entry that meets an
\* exit condition spans both the target and the stop of the trade, the trade
\* resolves by its take-profit branch at that candle, Short or Long, and no
\* later candle is examined.
TargetBeforeStop ==
    /\ \A n \in DOMAIN trades :
          \A k \in 0..(Len(data) - 1) :
             (FirstExit(trades[n], k) /\ SpansBoth(trades[n], k))
                => /\ trades[n].kind = "target"
                   /\ trades[n].exit = k
                   /\ trades[n].examined = k
    /\ pc \in {"loop", "ret"}
          => \A k \in 0..(Len(data) - 1) :
                (FirstExit(call, k) /\ SpansBoth(call, k)) => call.j <= k

\* A trade resolved at a spanning candle that is not the last of the series.
TargetBeforeStopWitness ==
    \E n \in DOMAIN trades :
       \E k \in 0..(Len(data) - 2) :
          /\ FirstExit(trades[n], k)
          /\ SpansBoth(trades[n], k)
          /\ trades[n].kind = "target"

-----------------------------------------------------------------------------
\* C4: a trade resolved by its target is a win (profit > 0, counted in
\* winningTrades) and a trade resolved by its stop is a loss (profit <= 0,
\* counted in losingTrades), whatever the balance has become.
ResolutionMatchesLedger ==
    \A n \in DOMAIN trades :
       /\ trades[n].kind = "target"
             => (Gt(trades[n].profit, Zero) /\ trades[n].won)
       /\ trades[n].kind = "stop"
             => (Le(trades[n].profit, Zero) /\ trades[n].lost)

-----------------------------------------------------------------------------
\* C5: zero-profit policy.  A trade that returns profit 0 is counted in
\* losingTrades and not in winningTrades; a trade opened at the last index is
\* closed at its own candle with profit 0, leaves the balance as it was and is
\* counted as losing.
ZeroProfitLoses ==
    /\ \A n \in DOMAIN trades :
          /\ trades[n].profit = Zero => (trades[n].lost /\ ~trades[n].won)
          /\ trades[n].index = Len(data) - 1
                => /\ trades[n].kind = "end"
                   /\ trades[n].exit = trades[n].index
                   /\ trades[n].profit = Zero
                   /\ trades[n].balance = trades[n].openBalance
                   /\ trades[n].lost
    /\ losingTrades >= Cardinality({n \in DOMAIN trades : trades[n].profit = Zero})
    /\ (AtRest /\ trades # <<>>) => currentBalance = trades[Len(trades)].balance

\* A finished run whose last index opened a trade, after a trade that changed
\* the balance.
ZeroProfitWitness ==
    /\ pc = "done"
    /\ Len(trades) >= 2
    /\ trades[Len(trades)].index = Len(data) - 1
    /\ trades[Len(trades)].profit = Zero
    /\ trades[Len(trades)].openBalance # N(initialBalance)
    /\ losingTrades >= 1

-----------------------------------------------------------------------------
\* C6: monthly aggregation.  Between trades, monthlyProfit holds for every
\* month the sum of the profits of the trades whose exit candle lies in that
\* UTC calendar month, holds no other key, and its values sum to
\* balance - initialBalance.
MonthlyAggregation ==
    AtRest =>
       /\ DOMAIN monthlyProfit =
             {CalendarMonth(At(trades[n].exit).timestamp) : n \in DOMAIN trades}
       /\ \A m \in DOMAIN monthlyProfit :
             monthlyProfit[m] = SumProfitsIn(trades, CandlesOfMonth(m))
       /\ SumMonths(monthlyProfit, DOMAIN monthlyProfit)
             = Sub(currentBalance, N(initialBalance))

\* Two trades with a profit that exit at different candles of one month, the
\* first of them opened at a candle of the month before.
MonthlyWitness ==
    /\ pc = "done"
    /\ \E a, b \in DOMAIN trades :
          /\ a < b
          /\ trades[a].month = trades[b].month
          /\ trades[a].exit # trades[b].exit
          /\ trades[a].profit # Zero
          /\ trades[b].profit # Zero
          /\ CalendarMonth(At(trades[a].index).timestamp) # trades[a].month
          /\ monthlyProfit[trades[a].month] # trades[b].profit

-----------------------------------------------------------------------------
\* C7: an index whose previous close or own close is <= 0 is skipped: no trade
\* is opened or recorded for it.
NonPositiveSkipped ==
    /\ \A n \in DOMAIN trades :
          At(trades[n].index - 1).close > 0 /\ At(trades[n].index).close > 0
    /\ pc \in {"loop", "ret"}
          => (At(call.index - 1).close > 0 /\ At(call.index).close > 0)

-----------------------------------------------------------------------------
\* C8: counter consistency.  totalTrades = winningTrades + losingTrades in
\* every state; every trade adds one to totalTrades and to exactly one of
\* winningTrades (iff its profit is > 0) and losingTrades.
CountersConsistent ==
    /\ totalTrades = winningTrades + losingTrades
    /\ totalTrades = Len(trades)
    /\ winningTrades = Cardinality({n \in DOMAIN trades : Gt(trades[n].profit, Zero)})
    /\ \A n \in DOMAIN trades :
          /\ trades[n].won <=> Gt(trades[n].profit, Zero)
          /\ trades[n].lost <=> ~trades[n].won

\* A finished run with a winning, a losing and a zero-profit trade.
CountersWitness ==
    /\ pc = "done"
    /\ winningTrades >= 1
    /\ \E n \in DOMAIN trades : Lt(trades[n].profit, Zero)
    /\ \E n \in DOMAIN trades : trades[n].profit = Zero

-----------------------------------------------------------------------------
\* C9: the live monitor calls placeOrder for a symbol if and only if its 24h
\* volume is at least volumeThreshold, at least 2 candles were fetched and the
\* change of the last two closes is below -1.3%; the order is then a buy at the
\* current price with takeProfit = price * 1.013 and stopLoss = price * 0.987.
LiveQualifies(p) ==
    /\ p.volume24h >= 10000000
    /\ Len(p.closes) >= 2
    /\ 1000 * (p.closes[Len(p.closes)] - p.closes[Len(p.closes) - 1])
          < -13 * p.closes[Len(p.closes) - 1]

OrdersOnlyOnLong ==
    \A n \in DOMAIN polls :
       LET p == polls[n]
       IN  /\ (p.order # NoOrder) <=> LiveQualifies(p)
           /\ LiveQualifies(p)
                 => /\ p.order.symbol = p.symbol
                    /\ p.order.side = "buy"
                    /\ p.order.price = N(p.closes[Len(p.closes)])
                    /\ p.order.takeProfit = Norm(p.closes[Len(p.closes)] * 1013, 1000)
                    /\ p.order.stopLoss = Norm(p.closes[Len(p.closes)] * 987, 1000)

\* An order was placed for one symbol, and none for a symbol whose price rose
\* by more than the threshold on sufficient volume.
OrdersWitness ==
    /\ \E n \in DOMAIN polls : polls[n].order # NoOrder
    /\ \E n \in DOMAIN polls :
          /\ polls[n].order = NoOrder
          /\ polls[n].volume24h >= 10000000
          /\ Len(polls[n].closes) = 2
          /\ 1000 * (polls[n].closes[2] - polls[n].closes[1]) > 13 * polls[n].closes[1]

-----------------------------------------------------------------------------
\* C10: overlapping trades with compounding.  The trades recorded so far are
\* those of the indices already passed whose move exceeds the threshold, one
\* per index and in increasing order, also when an earlier trade exits after
\* the index; each trade is sized on the balance the trade before it returned;
\* a finished run has as many trades as indices whose move exceeds the
\* threshold.
SpikeIndices(upTo) == {k \in 1..upTo : k < Len(data) /\ MoveExceeds(k)}

OverlapCompounds ==
    /\ 1 <= i
    /\ (Len(data) >= 1 => i <= Len(data))
    /\ \A n \in DOMAIN trades :
          /\ n > 1 => trades[n - 1].index < trades[n].index
          /\ trades[n].openBalance =
                (IF n = 1 THEN N(initialBalance) ELSE trades[n - 1].balance)
    /\ AtRest => {trades[n].index : n \in DOMAIN trades} = SpikeIndices(i - 1)
    /\ pc = "done" => totalTrades = Cardinality(SpikeIndices(Len(data)))

\* A finished run with a trade opened before the trade before it exited, on a
\* balance that trade had changed.
OverlapWitness ==
    /\ pc = "done"
    /\ \E n \in DOMAIN trades :
          /\ n > 1
          /\ trades[n].index < trades[n - 1].exit
          /\ trades[n].openBalance # trades[n - 1].openBalance
          /\ trades[n].profit # Zero

=============================================================================
